---- MODULE Spec2Model ----
(***************************************************************************)
(* The timeline (Gantt) view of projex, src/src/components/GanttChart.tsx, *)
(* as a state machine.                                                     *)
(*                                                                         *)
(* Instants are the whole numbers a JavaScript Date stores (milliseconds   *)
(* since the epoch); every `new Date(x)` of the source is TimeClip(x), the *)
(* truncation of the real number x toward zero.  The arithmetic between    *)
(* two Date constructions is carried out on exact fractions.  The model's  *)
(* clock is scaled: MsPerHour fixes how many stored units make one hour.   *)
(*                                                                         *)
(* React semantics.  A handler reads the values of the render it was       *)
(* created in (its closure), not the latest state.  `rendered` is that     *)
(* snapshot.  Updates made in a discrete event (mousedown, mouseup, key)   *)
(* are rendered, and their effects run, before the next event; updates     *)
(* made in a continuous event (mousemove, wheel, mouseleave) or in a       *)
(* resize are rendered by a later Render step, so further events can be    *)
(* handled by the old closures first.                                      *)
(***************************************************************************)
EXTENDS Integers, Sequences, FiniteSets, TLC

VARIABLES
    jobs,               \* App state: the job records handed to the chart
    pendingUpdates,     \* App.updateJobTime calls awaiting updateJob
    mounted,            \* the chart instance exists
    draggedTask,        \* useState<GanttTask | null>
    dragOperation,      \* useState<DragOperation>
    dragStartPosition,  \* useState<{x, startDate, endDate} | null>
    width,              \* useState(initialWidth)
    panning,            \* useState(false): space bar held
    middlePanning,      \* useState(false): middle button held
    visibleDomain,      \* useState<[Date, Date] | null>
    initialFitted,      \* useState(false)
    isDragging,         \* zoom.isDragging of the visx Zoom component
    rendered,           \* the state as of the last render (handler closures)
    emitted,            \* history: the calls of onJobTimeUpdate, in order
    session,            \* history: number of Idle -> Dragging transitions
    cancelled,          \* history: the session cut short by an unmount, or 0
    selected,           \* history: the calls of onJobClick, in order
    jobStatus,          \* App state: the status field of each job record
    pendingStatus,      \* App.handleDragEnd calls awaiting updateJob
    error,              \* App state: useState<string | null>
    steps               \* history: number of events handled and renders made

vars == <<jobs, pendingUpdates, mounted, draggedTask, dragOperation,
          dragStartPosition, width, panning, middlePanning, visibleDomain,
          initialFitted, isDragging, rendered, emitted, session, cancelled,
          selected, jobStatus, pendingStatus, error, steps>>

(* the state of the status board                                           *)
Board == <<jobStatus, pendingStatus>>

----------------------------------------------------------------------------
(* Bounds of the model: the scale of the clock, the number of events and  *)
(* renders in a run, the pointer travel in pixels, the window widths       *)
(* (plot widths -2, 76 and 304), the pointer-down position, and the number *)
(* of wheel notches already turned when a deeply zoomed run starts and the *)
(* pointer position they were turned at, and the length of the ids whose   *)
(* hue is computed                                                         *)

MsPerHour == 1
MaxSteps == 4
MaxPx == 5
TinyInnerWidth == 150
NarrowInnerWidth == 228
WideInnerWidth == 456
BaseX == 130
WheelDepth == 41
DeepWheelX == 302
MaxIdLen == 5

(* Program constants                                                       *)

MarginLeft == 60
MarginRight == 60
WindowPadding == 32
PadDays == 3
HoursPerDay == 24

Null == [null |-> TRUE]

(* midnight of the day the jobs are on: a day well after the epoch, and    *)
(* the day whose first job ends at the epoch                               *)
Day0 == 240 * MsPerHour

EpochDay0 == 0 - 11 * MsPerHour

JobIds == {"a", "b", "c"}
Operations == {"move", "resize-start", "resize-end"}
Buttons == {0, 1, 2}
InnerWidths == {TinyInnerWidth, NarrowInnerWidth, WideInnerWidth}
ClientXs == {BaseX - MaxPx, BaseX, BaseX + 1, BaseX + MaxPx - 1, BaseX + MaxPx}
DownXs == {BaseX}
WheelXs == {0, BaseX}
MovementXs == {-1, 1}

----------------------------------------------------------------------------
(* Exact fractions n/d with d > 0, for the arithmetic between two Dates    *)

Rat(i) == [n |-> i, d |-> 1]

RAdd(a, b) == [n |-> a.n * b.d + b.n * a.d, d |-> a.d * b.d]

RSub(a, b) == [n |-> a.n * b.d - b.n * a.d, d |-> a.d * b.d]

RMul(a, b) == [n |-> a.n * b.n, d |-> a.d * b.d]

RDiv(a, b) ==
    IF b.n > 0 THEN [n |-> a.n * b.d, d |-> a.d * b.n]
               ELSE [n |-> 0 - (a.n * b.d), d |-> 0 - (a.d * b.n)]

(* new Date(x).getTime(): the time value is x truncated toward zero        *)
TimeClip(x) ==
    IF x.n >= 0 THEN x.n \div x.d ELSE 0 - ((0 - x.n) \div x.d)

----------------------------------------------------------------------------
(* The job records the surrounding application can hand to the chart.      *)
(* job_start / job_end are <<>> (null) or <<t>> (a string parsing to t).   *)

Job(s, e) == [job_start |-> s, job_end |-> e]

JobsOn(day) ==
    [j \in JobIds |->
        IF j = "a" THEN Job(<<day + 9 * MsPerHour>>, <<day + 11 * MsPerHour>>)
        ELSE IF j = "b" THEN Job(<<day + 13 * MsPerHour>>, <<day + 17 * MsPerHour>>)
        ELSE Job(<<day + 12 * MsPerHour>>, <<>>)]

JobLists == {JobsOn(Day0), JobsOn(EpochDay0)}

(* a job list spread over five days                                        *)
JobsOverDays(day) ==
    [JobsOn(day) EXCEPT !["b"] =
        Job(<<day + (4 * HoursPerDay + 13) * MsPerHour>>,
            <<day + (4 * HoursPerDay + 17) * MsPerHour>>)]

(* new Date("yyyy-mm-dd"): midnight UTC of the civil date, in stored units *)
DaysFromCivil(y, m, d) ==
    LET yy == IF m <= 2 THEN y - 1 ELSE y
        era == yy \div 400
        yoe == yy - era * 400
        mp == (m + 9) % 12
        doy == (153 * mp + 2) \div 5 + d - 1
        doe == yoe * 365 + yoe \div 4 - yoe \div 100 + doy
    IN  era * 146097 + doe - 719468

DateOf(y, m, d) == DaysFromCivil(y, m, d) * HoursPerDay * MsPerHour

(* three jobs spanning 2024-03-01 to 2024-03-10                            *)
MarchJobs ==
    [j \in JobIds |->
        IF j = "a" THEN Job(<<DateOf(2024, 3, 1)>>, <<DateOf(2024, 3, 3)>>)
        ELSE IF j = "b" THEN Job(<<DateOf(2024, 3, 4)>>, <<DateOf(2024, 3, 6)>>)
        ELSE Job(<<DateOf(2024, 3, 8)>>, <<DateOf(2024, 3, 10)>>)]

(* the job ids of the model as the strings they stand for (the UTF-16     *)
(* code units of two uuid prefixes and of a one-character id), and the    *)
(* order of the job records in the jobs array                             *)
charCodes ==
    [j \in JobIds |->
        IF j = "a"
        THEN <<51, 102, 50, 53, 48, 52, 101, 48, 45, 52, 102, 56,
                57, 45, 52, 49, 100, 51>>
        ELSE IF j = "b"
        THEN <<98, 55, 101, 50, 51, 101, 99, 50, 45, 57, 100, 55,
                97>>
        ELSE <<55>>]

jobOrder == <<"a", "b", "c">>

(* Numbers beyond 32 bits: q * 2^16 + r with 0 <= r < 2^16                 *)
Limb == 65536

(* one round of the loop: hash = charCode + ((hash << 5) - hash), the     *)
(* shift on the low 32 bits of hash and read as a signed 32-bit integer    *)
hashStep(h, c) ==
    LET a == h.q % Limb
        r32 == h.r * 32
        sl == r32 % Limb
        a32 == (a * 32 + (r32 \div Limb)) % Limb
        sh == IF a32 >= Limb \div 2 THEN a32 - Limb ELSE a32
        lo == sl - h.r + c
        hi == sh - h.q
    IN  [q |-> hi + (lo \div Limb), r |-> lo % Limb]

(* the values of hash before the loop and after each of its first n      *)
(* rounds, starting from hash h                                            *)
RECURSIVE hashTrace(_, _, _)
hashTrace(h, codes, n) ==
    IF n = 0 THEN <<h>>
    ELSE LET before == hashTrace(h, codes, n - 1)
         IN  Append(before, hashStep(before[n], codes[n]))

hashFrom(h, codes) == hashTrace(h, codes, Len(codes))[Len(codes) + 1]

hashOf(codes) == hashFrom([q |-> 0, r |-> 0], codes)

(* hash % 300 keeps the sign of hash                                       *)
hashRem300(h) ==
    LET m == ((h.q % 300) * (Limb % 300) + h.r) % 300
    IN  IF h.q >= 0 THEN m ELSE 0 - ((300 - m) % 300)

(* the hue without Math.abs                                                *)
hueNoAbs(codes) == hashRem300(hashOf(codes))

(* hue = Math.abs(hash % 300)                                              *)
hue(codes) ==
    LET rem == hashRem300(hashOf(codes))
    IN  IF rem < 0 THEN 0 - rem ELSE rem

(* ganttTasks as it would be if it filtered on job_start only              *)
ganttTasksStartOnly(js) ==
    [j \in {i \in DOMAIN js : js[i].job_start # <<>>} |->
        [id |-> j, job_id |-> j,
         start |-> js[j].job_start[1],
         end |-> IF js[j].job_end # <<>> THEN js[j].job_end[1]
                                         ELSE js[j].job_start[1]]]

(* ganttTasks: the jobs with both bounds present, one task per job         *)
ganttTasks(js) ==
    [j \in {i \in DOMAIN js : js[i].job_start # <<>> /\ js[i].job_end # <<>>} |->
        [id |-> j, job_id |-> j,
         start |-> js[j].job_start[1], end |-> js[j].job_end[1]]]

(* the tasks' colours as they would be if hash were declared outside the   *)
(* map callback and carried from one job to the next                       *)
RECURSIVE huesCarried(_, _, _)
huesCarried(js, i, h) ==
    IF i > Len(jobOrder) THEN <<>>
    ELSE LET j == jobOrder[i]
         IN  IF j \in DOMAIN ganttTasks(js)
             THEN LET hj == hashFrom(h, charCodes[j])
                      rem == hashRem300(hj)
                  IN  <<[id |-> j, hue |-> IF rem < 0 THEN 0 - rem ELSE rem]>>
                          \o huesCarried(js, i + 1, hj)
             ELSE huesCarried(js, i + 1, h)

taskColorsCarried(js) ==
    LET hs == huesCarried(js, 1, [q |-> 0, r |-> 0])
    IN  [j \in DOMAIN ganttTasks(js) |->
            LET i == CHOOSE k \in DOMAIN hs : hs[k].id = j
            IN  [hue |-> hs[i].hue, saturation |-> 70, lightness |-> 50]]

(* the color field of each task: hsl(hue, 70%, 50%), the hue hashed from   *)
(* the job's id                                                            *)
taskColors(js) ==
    [j \in DOMAIN ganttTasks(js) |->
        [hue |-> hue(charCodes[j]), saturation |-> 70, lightness |-> 50]]

(* the time value of an Invalid Date (new Date of an unparsable string);   *)
(* a job's job_start / job_end <<NaN>> is such a string                    *)
NaN == 0 - 1000000000

SetMin(S) == CHOOSE x \in S : \A y \in S : x <= y

SetMax(S) == CHOOSE x \in S : \A y \in S : x >= y

PadMs == PadDays * HoursPerDay * MsPerHour

(* Math.min / Math.max / new Date(t + ms): NaN if an argument is NaN       *)
mathMin(S) == IF NaN \in S THEN NaN ELSE SetMin(S)

mathMax(S) == IF NaN \in S THEN NaN ELSE SetMax(S)

dateAdd(t, ms) == IF t = NaN THEN NaN ELSE t + ms

(* the initial fit as it would be with the padding on the start only      *)
initialFitPadStartOnly(vd, fitted, tasks) ==
    IF fitted \/ vd # Null THEN [domain |-> vd, fitted |-> fitted]
    ELSE IF DOMAIN tasks = {} THEN [domain |-> vd, fitted |-> fitted]
    ELSE [domain |-> [start |-> dateAdd(mathMin({tasks[t].start : t \in DOMAIN tasks}),
                                        0 - PadMs),
                      end |-> mathMax({tasks[t].end : t \in DOMAIN tasks})],
          fitted |-> TRUE]

(* the initial-fit effect without its guard on initialFitted and           *)
(* visibleDomain                                                           *)
initialFitEveryTime(vd, fitted, tasks) ==
    IF DOMAIN tasks = {} THEN [domain |-> vd, fitted |-> fitted]
    ELSE [domain |-> [start |-> dateAdd(mathMin({tasks[t].start : t \in DOMAIN tasks}),
                                        0 - PadMs),
                      end |-> dateAdd(mathMax({tasks[t].end : t \in DOMAIN tasks}),
                                      PadMs)],
          fitted |-> TRUE]

(* the initial-fit effect: runs after a render in which ganttTasks,        *)
(* visibleDomain or initialFitted changed                                  *)
initialFit(vd, fitted, tasks) ==
    IF fitted \/ vd # Null THEN [domain |-> vd, fitted |-> fitted]
    ELSE IF DOMAIN tasks = {} THEN [domain |-> vd, fitted |-> fitted]
    ELSE [domain |-> [start |-> dateAdd(mathMin({tasks[t].start : t \in DOMAIN tasks}),
                                        0 - PadMs),
                      end |-> dateAdd(mathMax({tasks[t].end : t \in DOMAIN tasks}),
                                      PadMs)],
          fitted |-> TRUE]

(* the clock when the chart mounts: the first job of the later list starts *)
(* fifty years less three days before it                                   *)
FiftyYearsBack == 18262 * HoursPerDay * MsPerHour

FiftyYearsAhead == 18263 * HoursPerDay * MsPerHour

Now == Day0 + 9 * MsPerHour - PadMs + FiftyYearsBack

(* hugeDomain: now with the year set back and forward by 50                *)
hugeDomain == [start |-> Now - FiftyYearsBack, end |-> Now + FiftyYearsAhead]

xMax(w) == w - MarginLeft - MarginRight

----------------------------------------------------------------------------
(* ViewportController                                                      *)

(* handlePan as it would be if only the first bound were shifted           *)
handlePanStartOnly(vd, xmax, deltaPx) ==
    IF vd = Null THEN vd
    ELSE LET domainMs == Rat(vd.end - vd.start)
             msPerPx == RDiv(domainMs, Rat(xmax))
             deltaMs == RMul(Rat(0 - deltaPx), msPerPx)
         IN  [start |-> TimeClip(RAdd(Rat(vd.start), deltaMs)),
              end |-> vd.end]

handlePan(vd, xmax, deltaPx) ==
    IF vd = Null THEN vd
    ELSE LET domainMs == Rat(vd.end - vd.start)
             msPerPx == RDiv(domainMs, Rat(xmax))
             deltaMs == RMul(Rat(0 - deltaPx), msPerPx)
         IN  [start |-> TimeClip(RAdd(Rat(vd.start), deltaMs)),
              end |-> TimeClip(RAdd(Rat(vd.end), deltaMs))]

(* handleZoom as it would be if it scaled about the middle of the domain   *)
(* instead of the pointer                                                  *)
handleZoomAboutMiddle(vd, xmax, scaleFactor, centerPx) ==
    IF vd = Null THEN vd
    ELSE LET domainStart == Rat(vd.start)
             domainEnd == Rat(vd.end)
             domainMs == RSub(domainEnd, domainStart)
             centerRatio == [n |-> 1, d |-> 2]
             centerTime == RAdd(domainStart, RMul(domainMs, centerRatio))
             newDomainMs == RDiv(domainMs, scaleFactor)
             newStart == RSub(centerTime, RMul(newDomainMs, centerRatio))
             newEnd == RAdd(centerTime, RMul(newDomainMs, RSub(Rat(1), centerRatio)))
         IN  [start |-> TimeClip(newStart), end |-> TimeClip(newEnd)]

handleZoom(vd, xmax, scaleFactor, centerPx) ==
    IF vd = Null THEN vd
    ELSE LET domainStart == Rat(vd.start)
             domainEnd == Rat(vd.end)
             domainMs == RSub(domainEnd, domainStart)
             centerRatio == RDiv(Rat(centerPx), Rat(xmax))
             centerTime == RAdd(domainStart, RMul(domainMs, centerRatio))
             newDomainMs == RDiv(domainMs, scaleFactor)
             newStart == RSub(centerTime, RMul(newDomainMs, centerRatio))
             newEnd == RAdd(centerTime, RMul(newDomainMs, RSub(Rat(1), centerRatio)))
         IN  [start |-> TimeClip(newStart), end |-> TimeClip(newEnd)]

(* the limits given to the Zoom component                                  *)
scaleXMin == [n |-> 1, d |-> 100]

scaleXMax == [n |-> 200, d |-> 1]

(* handleWheel: deltaY < 0 zooms in by 1.1, otherwise out by 0.9           *)
wheelScale(deltaYNegative) ==
    IF deltaYNegative THEN [n |-> 11, d |-> 10] ELSE [n |-> 9, d |-> 10]

----------------------------------------------------------------------------
(* DragInteractionController                                               *)

(* msPerPixel of zoomedXScale (only read while a task is dragged, when a   *)
(* visible domain has been set)                                            *)
(* zoomedXScale: scaleTime with domain vd and range [0, xmax], a linear    *)
(* map from instants to pixels, and its inverse (a Date)                   *)
toPixel(vd, xmax, t) ==
    RDiv(RMul(Rat(t - vd.start), Rat(xmax)), Rat(vd.end - vd.start))

toInstant(vd, xmax, px) ==
    TimeClip(RAdd(Rat(vd.start),
                  RDiv(RMul(px, Rat(vd.end - vd.start)), Rat(xmax))))

(* msPerPixel as it would be if it divided by the width of the svg         *)
msPerPixelOfSvg(vd, xmax) ==
    RDiv(Rat(vd.end - vd.start), Rat(xmax + MarginLeft + MarginRight))

msPerPixel(vd, xmax) == RDiv(Rat(vd.end - vd.start), Rat(xmax))

(* Each handler yields the state it sets and the onJobTimeUpdate calls it  *)
(* makes, in order                                                         *)

handleDragStart(task, operation, clientX) ==
    [draggedTask |-> [id |-> task.id, job_id |-> task.job_id,
                      start |-> task.start, end |-> task.end],
     dragOperation |-> operation,
     dragStartPosition |-> [x |-> clientX, startDate |-> task.start,
                            endDate |-> task.end],
     calls |-> <<>>]

(* Variants of handleDrag with one line of it changed                      *)

dragShift(t, pos, mspp, clientX) ==
    TimeClip(RAdd(Rat(t), RMul(Rat(clientX - pos.x), mspp)))

(* ... reporting every candidate to onJobTimeUpdate                        *)
handleDragReporting(dt, op, pos, mspp, clientX) ==
    LET s == dragShift(pos.startDate, pos, mspp, clientX)
        e == dragShift(pos.endDate, pos, mspp, clientX)
        newTask ==
            IF op = "move" THEN [dt EXCEPT !.start = s, !.end = e]
            ELSE IF op = "resize-start"
            THEN [dt EXCEPT !.start = IF s > pos.endDate THEN pos.endDate ELSE s,
                            !.end = pos.endDate]
            ELSE [dt EXCEPT !.start = pos.startDate,
                            !.end = IF e < pos.startDate THEN pos.startDate ELSE e]
    IN  [draggedTask |-> newTask,
         calls |-> <<[jobId |-> dt.job_id, start |-> newTask.start,
                      end |-> newTask.end]>>]

(* ... without the clamp of resize-end                                     *)
handleDragNoEndClamp(dt, op, pos, mspp, clientX) ==
    LET s == dragShift(pos.startDate, pos, mspp, clientX)
        e == dragShift(pos.endDate, pos, mspp, clientX)
        newTask ==
            IF op = "move" THEN [dt EXCEPT !.start = s, !.end = e]
            ELSE IF op = "resize-start"
            THEN [dt EXCEPT !.start = IF s > pos.endDate THEN pos.endDate ELSE s,
                            !.end = pos.endDate]
            ELSE [dt EXCEPT !.start = pos.startDate, !.end = e]
    IN  [draggedTask |-> newTask, calls |-> <<>>]

(* ... without the clamp of resize-start                                   *)
handleDragNoStartClamp(dt, op, pos, mspp, clientX) ==
    LET s == dragShift(pos.startDate, pos, mspp, clientX)
        e == dragShift(pos.endDate, pos, mspp, clientX)
        newTask ==
            IF op = "move" THEN [dt EXCEPT !.start = s, !.end = e]
            ELSE IF op = "resize-start"
            THEN [dt EXCEPT !.start = s, !.end = pos.endDate]
            ELSE [dt EXCEPT !.start = pos.startDate,
                            !.end = IF e < pos.startDate THEN pos.startDate ELSE e]
    IN  [draggedTask |-> newTask, calls |-> <<>>]

(* ... with resize-end moving the start along with the end                 *)
handleDragEndMovesStart(dt, op, pos, mspp, clientX) ==
    LET s == dragShift(pos.startDate, pos, mspp, clientX)
        e == dragShift(pos.endDate, pos, mspp, clientX)
        newTask ==
            IF op = "move" THEN [dt EXCEPT !.start = s, !.end = e]
            ELSE IF op = "resize-start"
            THEN [dt EXCEPT !.start = IF s > pos.endDate THEN pos.endDate ELSE s,
                            !.end = pos.endDate]
            ELSE [dt EXCEPT !.start = IF s < pos.startDate THEN s ELSE pos.startDate,
                            !.end = IF e < pos.startDate THEN pos.startDate ELSE e]
    IN  [draggedTask |-> newTask, calls |-> <<>>]

(* ... with move shifting the start only                                   *)
handleDragMoveStartOnly(dt, op, pos, mspp, clientX) ==
    LET s == dragShift(pos.startDate, pos, mspp, clientX)
        e == dragShift(pos.endDate, pos, mspp, clientX)
        newTask ==
            IF op = "move" THEN [dt EXCEPT !.start = s, !.end = pos.endDate]
            ELSE IF op = "resize-start"
            THEN [dt EXCEPT !.start = IF s > pos.endDate THEN pos.endDate ELSE s,
                            !.end = pos.endDate]
            ELSE [dt EXCEPT !.start = pos.startDate,
                            !.end = IF e < pos.startDate THEN pos.startDate ELSE e]
    IN  [draggedTask |-> newTask, calls |-> <<>>]

(* ... shifting the previous candidate instead of the anchor               *)
handleDragFromCandidate(dt, op, pos, mspp, clientX) ==
    LET s == dragShift(dt.start, pos, mspp, clientX)
        e == dragShift(dt.end, pos, mspp, clientX)
        newTask ==
            IF op = "move" THEN [dt EXCEPT !.start = s, !.end = e]
            ELSE IF op = "resize-start"
            THEN [dt EXCEPT !.start = IF s > dt.end THEN dt.end ELSE s]
            ELSE [dt EXCEPT !.end = IF e < dt.start THEN dt.start ELSE e]
    IN  [draggedTask |-> newTask, calls |-> <<>>]

(* handleDrag: the candidate start / end for the pointer at clientX        *)
handleDrag(dt, op, pos, mspp, clientX) ==
    LET deltaX == clientX - pos.x
        deltaMs == RMul(Rat(deltaX), mspp)
        shiftedStart == TimeClip(RAdd(Rat(pos.startDate), deltaMs))
        shiftedEnd == TimeClip(RAdd(Rat(pos.endDate), deltaMs))
        newTask ==
            IF op = "move"
            THEN [dt EXCEPT !.start = shiftedStart, !.end = shiftedEnd]
            ELSE IF op = "resize-start"
            THEN [dt EXCEPT !.start = IF shiftedStart > pos.endDate
                                      THEN pos.endDate ELSE shiftedStart,
                            !.end = pos.endDate]
            ELSE IF op = "resize-end"
            THEN [dt EXCEPT !.start = pos.startDate,
                            !.end = IF shiftedEnd < pos.startDate
                                    THEN pos.startDate ELSE shiftedEnd]
            ELSE [dt EXCEPT !.start = pos.startDate, !.end = pos.endDate]
    IN  [draggedTask |-> newTask, calls |-> <<>>]

(* handleDragEnd as it would be if it left the drag state set              *)
handleDragEndKeepsState(dt, op) ==
    [calls |-> IF dt # Null /\ op # "null"
               THEN <<[jobId |-> dt.job_id, start |-> dt.start, end |-> dt.end]>>
               ELSE <<>>,
     draggedTask |-> dt,
     dragOperation |-> op]

(* ... clearing the task but not the operation                            *)
handleDragEndKeepsOperation(dt, op) ==
    [calls |-> IF dt # Null /\ op # "null"
               THEN <<[jobId |-> dt.job_id, start |-> dt.start, end |-> dt.end]>>
               ELSE <<>>,
     draggedTask |-> Null,
     dragOperation |-> op]

(* handleDragEnd: one onJobTimeUpdate call with the closure's draggedTask, *)
(* then the drag state is cleared                                          *)
handleDragEnd(dt, op) ==
    [calls |-> IF dt # Null /\ op # "null"
               THEN <<[jobId |-> dt.job_id, start |-> dt.start, end |-> dt.end]>>
               ELSE <<>>,
     draggedTask |-> Null,
     dragOperation |-> "null"]

----------------------------------------------------------------------------
(* RenderModel                                                             *)

Snapshot(dt, op, pos, w, pan, mid, vd, isd) ==
    [draggedTask |-> dt, dragOperation |-> op, dragStartPosition |-> pos,
     width |-> w, panning |-> pan, middlePanning |-> mid,
     visibleDomain |-> vd, isDragging |-> isd]

(* a bar and its handles are drawn when barWidth > 0; the scale maps a     *)
(* degenerate domain to a constant                                         *)
barDrawn(r, task) ==
    LET renderTask == IF r.draggedTask # Null /\ r.draggedTask.id = task.id
                      THEN r.draggedTask ELSE task
    IN  /\ r.visibleDomain # Null
        /\ r.visibleDomain.end # r.visibleDomain.start
        /\ (renderTask.end - renderTask.start) * xMax(r.width)
             * (r.visibleDomain.end - r.visibleDomain.start) > 0

(* the domain of zoomedXScale                                              *)
scaleDomain(r) == IF r.visibleDomain = Null THEN hugeDomain ELSE r.visibleDomain

(* the primary axis with a two-hour boundary that belongs to the 5-minute  *)
(* side                                                                    *)
primaryAxisInclusive(vd) ==
    LET ms == vd.end - vd.start
    IN  [tickValues |-> IF ms <= 2 * MsPerHour THEN "timeMinute.every(5)"
                        ELSE IF ms < 24 * MsPerHour THEN "timeHour.every(1)"
                        ELSE "default",
         tickFormat |-> IF ms <= 2 * MsPerHour THEN "HH:mm" ELSE "H:00"]

(* the hour/minute axis: tickValues and tickFormat chosen by the width of  *)
(* the scale's domain                                                      *)
primaryAxis(vd) ==
    LET ms == vd.end - vd.start
    IN  [tickValues |-> IF ms < 2 * MsPerHour THEN "timeMinute.every(5)"
                        ELSE IF ms < 24 * MsPerHour THEN "timeHour.every(1)"
                        ELSE "default",
         tickFormat |-> IF ms < 2 * MsPerHour THEN "HH:mm" ELSE "H:00"]

(* the primary axis as it would be if the day axis followed its policy     *)
dayAxisFollowing(vd) == [tickValues |-> primaryAxis(vd).tickValues,
                         tickFormat |-> "getDate"]

(* the day and month axes: no tickValues, a fixed tickFormat               *)
dayAxis(vd) == [tickValues |-> "default", tickFormat |-> "getDate"]

monthAxis(vd) == [tickValues |-> "default", tickFormat |-> "month: short"]

(* the handles of a drawn bar can be pressed where the bar shows through   *)
(* the clip rectangle [0, xMax] of the plot (none when xMax <= 0)          *)
barClickable(r, task) ==
    LET renderTask == IF r.draggedTask # Null /\ r.draggedTask.id = task.id
                      THEN r.draggedTask ELSE task
        lo(a, b) == IF a <= b THEN a ELSE b
        hi(a, b) == IF a >= b THEN a ELSE b
    IN  /\ barDrawn(r, task)
        /\ xMax(r.width) > 0
        /\ lo(renderTask.start, renderTask.end)
             < hi(r.visibleDomain.start, r.visibleDomain.end)
        /\ hi(renderTask.start, renderTask.end)
             > lo(r.visibleDomain.start, r.visibleDomain.end)

(* ... with the effect registering its listeners without its guard        *)
dragListenersNoGuard(r) == TRUE

(* the global mousemove / mouseup listeners of the drag effect exist while *)
(* the rendered dragOperation and draggedTask are set                      *)
dragListeners(r) == r.dragOperation # "null" /\ r.draggedTask # Null

Flush ==
    rendered' = Snapshot(draggedTask', dragOperation', dragStartPosition',
                         width', panning', middlePanning', visibleDomain',
                         isDragging')

----------------------------------------------------------------------------
(* The state after the chart is mounted (App renders it once the jobs are  *)
(* fetched) and its mount effects have run                                 *)

Init ==
    \E jl \in JobLists, iw \in {WideInnerWidth} :
        LET fit == initialFit(Null, FALSE, ganttTasks(jl))
        IN  /\ jobs = jl
            /\ pendingUpdates = <<>>
            /\ mounted = TRUE
            /\ draggedTask = Null
            /\ dragOperation = "null"
            /\ dragStartPosition = Null
            /\ width = iw - WindowPadding
            /\ panning = FALSE
            /\ middlePanning = FALSE
            /\ visibleDomain = fit.domain
            /\ initialFitted = fit.fitted
            /\ isDragging = FALSE
            /\ rendered = Snapshot(Null, "null", Null, iw - WindowPadding,
                                   FALSE, FALSE, fit.domain, FALSE)
            /\ emitted = <<>>
            /\ session = 0
            /\ cancelled = 0
            /\ selected = <<>>
            /\ jobStatus = [j \in JobIds |-> "queued"]
            /\ pendingStatus = <<>>
            /\ error = Null
            /\ steps = 0

(* The chart after the user has turned the wheel WheelDepth notches        *)
(* inwards over one point (svg x DeepWheelX, which stays on task b) of the *)
(* freshly fitted view of the five-day list, each notch handled by         *)
(* handleZoom and rendered                                                 *)

RECURSIVE wheeledIn(_, _, _, _)
wheeledIn(vd, xmax, svgX, notches) ==
    IF notches = 0 THEN vd
    ELSE wheeledIn(handleZoom(vd, xmax, wheelScale(TRUE), svgX - MarginLeft),
                   xmax, svgX, notches - 1)

DeepFit == initialFit(Null, FALSE, ganttTasks(JobsOverDays(Day0)))

InitDeep ==
    LET w == WideInnerWidth - WindowPadding
        vd == wheeledIn(DeepFit.domain, xMax(w), DeepWheelX, WheelDepth)
    IN  /\ jobs = JobsOverDays(Day0)
        /\ pendingUpdates = <<>>
        /\ mounted = TRUE
        /\ draggedTask = Null
        /\ dragOperation = "null"
        /\ dragStartPosition = Null
        /\ width = w
        /\ panning = FALSE
        /\ middlePanning = FALSE
        /\ visibleDomain = vd
        /\ initialFitted = DeepFit.fitted
        /\ isDragging = FALSE
        /\ rendered = Snapshot(Null, "null", Null, w, FALSE, FALSE, vd, FALSE)
        /\ emitted = <<>>
        /\ session = 0
        /\ cancelled = 0
        /\ selected = <<>>
        /\ jobStatus = [j \in JobIds |-> "queued"]
        /\ pendingStatus = <<>>
        /\ error = Null
        /\ steps = 0

(* The chart mounted on a job list whose only schedulable job ends a week  *)
(* before it starts (the job form does not compare the two dates)          *)

InvertedJobs ==
    [j \in JobIds |->
        IF j = "a" THEN Job(<<Day0 + 7 * HoursPerDay * MsPerHour>>, <<Day0>>)
        ELSE IF j = "b" THEN Job(<<>>, <<Day0 + 17 * MsPerHour>>)
        ELSE Job(<<Day0 + 12 * MsPerHour>>, <<>>)]

InitInverted ==
    LET w == WideInnerWidth - WindowPadding
        fit == initialFit(Null, FALSE, ganttTasks(InvertedJobs))
    IN  /\ jobs = InvertedJobs
        /\ pendingUpdates = <<>>
        /\ mounted = TRUE
        /\ draggedTask = Null
        /\ dragOperation = "null"
        /\ dragStartPosition = Null
        /\ width = w
        /\ panning = FALSE
        /\ middlePanning = FALSE
        /\ visibleDomain = fit.domain
        /\ initialFitted = fit.fitted
        /\ isDragging = FALSE
        /\ rendered = Snapshot(Null, "null", Null, w, FALSE, FALSE, fit.domain,
                               FALSE)
        /\ emitted = <<>>
        /\ session = 0
        /\ cancelled = 0
        /\ selected = <<>>
        /\ jobStatus = [j \in JobIds |-> "queued"]
        /\ pendingStatus = <<>>
        /\ error = Null
        /\ steps = 0

(* App before it shows the chart (jobs fetched, another view selected),    *)
(* for job lists whose dates may be missing or unparsable, and the mount   *)
(* of the chart with its first render and effects                          *)

MountInputs ==
    [JobIds -> {Job(<<Day0 + 9 * MsPerHour>>, <<Day0 + 11 * MsPerHour>>),
                Job(<<Day0 + 13 * MsPerHour>>, <<Day0 + 17 * MsPerHour>>),
                Job(<<NaN>>, <<Day0 + 11 * MsPerHour>>),
                Job(<<Day0 + 9 * MsPerHour>>, <<NaN>>),
                Job(<<Day0 + 12 * MsPerHour>>, <<>>)}]

InitUnmounted ==
    /\ jobs \in MountInputs
    /\ pendingUpdates = <<>>
    /\ mounted = FALSE
    /\ draggedTask = Null
    /\ dragOperation = "null"
    /\ dragStartPosition = Null
    /\ width = WideInnerWidth - WindowPadding
    /\ panning = FALSE
    /\ middlePanning = FALSE
    /\ visibleDomain = Null
    /\ initialFitted = FALSE
    /\ isDragging = FALSE
    /\ rendered = Snapshot(Null, "null", Null, WideInnerWidth - WindowPadding,
                           FALSE, FALSE, Null, FALSE)
    /\ emitted = <<>>
    /\ session = 0
    /\ cancelled = 0
    /\ selected = <<>>
    /\ jobStatus = [j \in JobIds |-> "queued"]
    /\ pendingStatus = <<>>
    /\ error = Null
    /\ steps = 0

(* App showing the status board: the jobs are fetched, every job is        *)
(* queued, the chart is not rendered                                       *)
InitBoard ==
    /\ jobs = JobsOn(Day0)
    /\ pendingUpdates = <<>>
    /\ mounted = FALSE
    /\ draggedTask = Null
    /\ dragOperation = "null"
    /\ dragStartPosition = Null
    /\ width = WideInnerWidth - WindowPadding
    /\ panning = FALSE
    /\ middlePanning = FALSE
    /\ visibleDomain = Null
    /\ initialFitted = FALSE
    /\ isDragging = FALSE
    /\ rendered = Snapshot(Null, "null", Null, WideInnerWidth - WindowPadding,
                           FALSE, FALSE, Null, FALSE)
    /\ emitted = <<>>
    /\ session = 0
    /\ cancelled = 0
    /\ selected = <<>>
    /\ jobStatus = [j \in JobIds |-> "queued"]
    /\ pendingStatus = <<>>
    /\ error = Null
    /\ steps = 0

Mount ==
    /\ ~mounted
    /\ steps < MaxSteps
    /\ steps' = steps + 1
    /\ mounted' = TRUE
    /\ LET fit == initialFit(Null, FALSE, ganttTasks(jobs))
       IN  /\ visibleDomain' = fit.domain
           /\ initialFitted' = fit.fitted
    /\ UNCHANGED <<jobs, pendingUpdates, draggedTask, dragOperation,
                   dragStartPosition, width, panning, middlePanning,
                   isDragging, emitted, session, cancelled, selected, Board,
                   error>>
    /\ rendered' = Snapshot(draggedTask', dragOperation', dragStartPosition',
                            width', panning', middlePanning', visibleDomain',
                            isDragging')

SpecMount == InitUnmounted /\ [][Mount]_vars

----------------------------------------------------------------------------
(* InputRouter: one action per input event                                 *)

App == <<jobs, pendingUpdates, mounted, Board, error>>

(* the calls of onJobTimeUpdate a handler made: App.updateJobTime starts   *)
(* an updateJob for each; the history records them with the operation and  *)
(* the session they came from                                              *)
Emit(calls, op) ==
    /\ emitted' = emitted \o [i \in 1..Len(calls) |->
                                  [jobId |-> calls[i].jobId,
                                   start |-> calls[i].start,
                                   end |-> calls[i].end,
                                   operation |-> op,
                                   session |-> session']]
    /\ pendingUpdates' = pendingUpdates \o calls

Session == <<draggedTask, dragOperation, dragStartPosition>>

History == <<emitted, session, cancelled, selected>>

(* every event handled and every render counts against the run's length   *)
Step ==
    /\ steps < MaxSteps
    /\ steps' = steps + 1

(* mousedown on the move handle or a resize handle of a drawn task: the    *)
(* native svg listener (middle button), then onMouseDown ->                *)
(* handleDragStart; stopPropagation keeps the svg's own onMouseDown from   *)
(* running                                                                 *)
MouseDownHandle(t, op, button, clientX) ==
    /\ mounted
    /\ Step
    /\ t \in DOMAIN ganttTasks(jobs)
    /\ barClickable(rendered, ganttTasks(jobs)[t])
    /\ LET s == handleDragStart(ganttTasks(jobs)[t], op, clientX)
       IN  /\ draggedTask' = s.draggedTask
           /\ dragOperation' = s.dragOperation
           /\ dragStartPosition' = s.dragStartPosition
           /\ session' = IF dragOperation = "null" THEN session + 1 ELSE session
           /\ Emit(s.calls, op)
    /\ middlePanning' = IF button = 1 THEN TRUE ELSE middlePanning
    /\ UNCHANGED <<jobs, mounted, width, panning, visibleDomain,
                   initialFitted, isDragging, cancelled, selected, Board,
                   error>>
    /\ Flush

(* mousedown elsewhere on the svg (background or a task body): the native  *)
(* svg listener, a render if it set state, then the svg's onMouseDown,     *)
(* which calls zoom.dragStart                                              *)
MouseDownSurface(button) ==
    /\ mounted
    /\ Step
    /\ middlePanning' = IF button = 1 THEN TRUE ELSE middlePanning
    /\ LET pan == IF button = 1 THEN panning ELSE rendered.panning
           mid == IF button = 1 THEN TRUE ELSE rendered.middlePanning
       IN  isDragging' = IF (pan \/ mid) /\ button # 2 THEN TRUE ELSE isDragging
    /\ UNCHANGED <<App, Session, width, panning, visibleDomain, initialFitted,
                   History>>
    /\ Flush

(* mousemove while the drag listeners are registered: the window capture   *)
(* listener runs handleDrag and stops the event                            *)
DragMouseMove(clientX) ==
    /\ mounted
    /\ Step
    /\ dragListeners(rendered)
    /\ rendered.dragStartPosition # Null
    /\ LET s == handleDrag(rendered.draggedTask, rendered.dragOperation,
                           rendered.dragStartPosition,
                           msPerPixel(rendered.visibleDomain,
                                      xMax(rendered.width)),
                           clientX)
       IN  /\ draggedTask' = s.draggedTask
           /\ session' = session
           /\ Emit(s.calls, rendered.dragOperation)
    /\ UNCHANGED <<jobs, mounted, dragOperation, dragStartPosition, width,
                   panning, middlePanning, visibleDomain, initialFitted,
                   isDragging, rendered, cancelled, selected, Board, error>>

(* mousemove over the svg with no drag listeners: onMouseMove ->           *)
(* zoom.dragMove (patched) -> handlePan(e.movementX)                       *)
PanMouseMove(movementX) ==
    /\ mounted
    /\ Step
    /\ ~dragListeners(rendered)
    /\ rendered.panning \/ rendered.middlePanning
    /\ rendered.isDragging
    /\ rendered.visibleDomain # Null
    /\ visibleDomain' = handlePan(rendered.visibleDomain, xMax(rendered.width),
                                  movementX)
    /\ UNCHANGED <<App, Session, width, panning, middlePanning, initialFitted,
                   isDragging, rendered, History>>

(* wheel over the svg: handleWheel -> window.__latestZoom -> handleZoom    *)
Wheel(deltaYNegative, svgX) ==
    /\ mounted
    /\ Step
    /\ rendered.visibleDomain # Null
    /\ visibleDomain' = handleZoom(rendered.visibleDomain, xMax(rendered.width),
                                   wheelScale(deltaYNegative), svgX - MarginLeft)
    /\ UNCHANGED <<App, Session, width, panning, middlePanning, initialFitted,
                   isDragging, rendered, History>>

(* mouseup while the drag listeners are registered: the window capture     *)
(* listener runs handleDragEnd and stops the event.  onJobTimeUpdate is    *)
(* App.updateJobTime, which awaits updateJob before it changes jobs        *)
DragMouseUp(button) ==
    /\ mounted
    /\ Step
    /\ dragListeners(rendered)
    /\ LET s == handleDragEnd(rendered.draggedTask, rendered.dragOperation)
       IN  /\ draggedTask' = s.draggedTask
           /\ dragOperation' = s.dragOperation
           /\ session' = session
           /\ Emit(s.calls, rendered.dragOperation)
    /\ UNCHANGED <<jobs, mounted, dragStartPosition, width, panning,
                   middlePanning, visibleDomain, initialFitted, isDragging,
                   cancelled, selected, Board, error>>
    /\ Flush

(* mouseup with no drag listeners: the svg's onMouseUp (zoom.dragEnd) when *)
(* the pointer is over it, then the window listener of the middle-button   *)
(* effect                                                                  *)
SurfaceMouseUp(button, overSvg) ==
    /\ mounted
    /\ Step
    /\ ~dragListeners(rendered)
    /\ isDragging' = IF overSvg /\ (rendered.panning \/ rendered.middlePanning)
                     THEN FALSE ELSE isDragging
    /\ middlePanning' = IF button = 1 THEN FALSE ELSE middlePanning
    /\ UNCHANGED <<App, Session, width, panning, visibleDomain, initialFitted,
                   History>>
    /\ Flush

(* the pointer leaves the svg: onMouseLeave (zoom.dragEnd), then the       *)
(* native listener                                                         *)
MouseLeave ==
    /\ mounted
    /\ Step
    /\ isDragging' = IF rendered.panning \/ rendered.middlePanning
                     THEN FALSE ELSE isDragging
    /\ middlePanning' = FALSE
    /\ UNCHANGED <<App, Session, width, panning, visibleDomain, initialFitted,
                   rendered, History>>

KeyDownSpace ==
    /\ mounted
    /\ Step
    /\ panning' = TRUE
    /\ UNCHANGED <<App, Session, width, middlePanning, visibleDomain,
                   initialFitted, isDragging, History>>
    /\ Flush

KeyUpSpace ==
    /\ mounted
    /\ Step
    /\ panning' = FALSE
    /\ UNCHANGED <<App, Session, width, middlePanning, visibleDomain,
                   initialFitted, isDragging, History>>
    /\ Flush

(* a resize as it would be if it fitted the domain to the tasks again      *)
ResizeRefitting(innerWidth) ==
    /\ mounted
    /\ Step
    /\ width' = innerWidth - WindowPadding
    /\ visibleDomain' = initialFit(Null, FALSE, ganttTasks(jobs)).domain
    /\ UNCHANGED <<App, Session, panning, middlePanning, initialFitted,
                   isDragging, rendered, History>>

(* window resize: handleResize                                             *)
Resize(innerWidth) ==
    /\ mounted
    /\ Step
    /\ width' = innerWidth - WindowPadding
    /\ UNCHANGED <<App, Session, panning, middlePanning, visibleDomain,
                   initialFitted, isDragging, rendered, History>>

(* a click on a task's body that also started a move of the task          *)
BodyClickDragging(t) ==
    /\ mounted
    /\ Step
    /\ t \in DOMAIN ganttTasks(jobs)
    /\ barClickable(rendered, ganttTasks(jobs)[t])
    /\ selected' = Append(selected, [jobId |-> t, job |-> jobs[t]])
    /\ LET s == handleDragStart(ganttTasks(jobs)[t], "move", BaseX)
       IN  /\ draggedTask' = s.draggedTask
           /\ dragOperation' = s.dragOperation
           /\ dragStartPosition' = s.dragStartPosition
    /\ UNCHANGED <<App, width, panning, middlePanning, visibleDomain,
                   initialFitted, isDragging, emitted, session, cancelled>>
    /\ Flush

(* click on the body of a drawn task (the bar below the move handle): its  *)
(* onClick looks the job up in the jobs prop and calls onJobClick          *)
BodyClick(t) ==
    /\ mounted
    /\ Step
    /\ t \in DOMAIN ganttTasks(jobs)
    /\ barClickable(rendered, ganttTasks(jobs)[t])
    /\ LET task == ganttTasks(jobs)[t]
           jobObj == {j \in DOMAIN jobs : j = task.job_id}
       IN  selected' = IF jobObj = {} THEN selected
                       ELSE Append(selected, [jobId |-> task.job_id,
                                              job |-> jobs[task.job_id]])
    /\ UNCHANGED <<App, Session, width, panning, middlePanning, visibleDomain,
                   initialFitted, isDragging, emitted, session, cancelled>>
    /\ Flush

(* React renders the pending updates and runs the effects                  *)
Render ==
    /\ mounted
    /\ Step
    /\ rendered # Snapshot(draggedTask, dragOperation, dragStartPosition,
                           width, panning, middlePanning, visibleDomain,
                           isDragging)
    /\ UNCHANGED <<App, Session, width, panning, middlePanning, visibleDomain,
                   initialFitted, isDragging, History>>
    /\ Flush

(* updateJob settles: App.updateJobTime sets jobs on success, the error on *)
(* failure; App re-renders and with it a mounted chart                     *)
UpdateJobSettles(ok) ==
    /\ Step
    /\ pendingUpdates # <<>>
    /\ LET u == Head(pendingUpdates)
           js == IF ok THEN [jobs EXCEPT ![u.jobId] = Job(<<u.start>>, <<u.end>>)]
                       ELSE jobs
           fit == initialFit(visibleDomain, initialFitted, ganttTasks(js))
       IN  /\ jobs' = js
           /\ visibleDomain' = IF mounted THEN fit.domain ELSE visibleDomain
           /\ initialFitted' = IF mounted THEN fit.fitted ELSE initialFitted
    /\ pendingUpdates' = Tail(pendingUpdates)
    /\ error' = IF ok THEN error
                ELSE [message |-> "Failed to update job time."]
    /\ UNCHANGED <<mounted, Session, width, panning, middlePanning,
                   isDragging, History, Board>>
    /\ IF mounted THEN Flush ELSE UNCHANGED rendered

(* the job lists a search filter or a fetch can leave: the jobs spread     *)
(* over five days, and no job with both dates                              *)
ChangedJobLists == {JobsOverDays(Day0), [j \in JobIds |-> Job(<<>>, <<>>)]}

(* the jobs prop changes (App.filteredJobs after a search query change, or *)
(* App.fetchJobs): the chart renders and the initial-fit effect runs       *)
JobsChange(js) ==
    /\ mounted
    /\ Step
    /\ js # jobs
    /\ jobs' = js
    /\ LET fit == initialFit(visibleDomain, initialFitted, ganttTasks(js))
       IN  /\ visibleDomain' = fit.domain
           /\ initialFitted' = fit.fitted
    /\ UNCHANGED <<pendingUpdates, mounted, Session, width, panning,
                   middlePanning, isDragging, History, Board, error>>
    /\ Flush

(* App switches the view: the effects clean up (the drag listeners are     *)
(* removed) and the chart's state is discarded with the instance           *)
Unmount ==
    /\ mounted
    /\ Step
    /\ mounted' = FALSE
    /\ cancelled' = IF dragOperation # "null" THEN session ELSE 0
    /\ draggedTask' = Null
    /\ dragOperation' = "null"
    /\ dragStartPosition' = Null
    /\ panning' = FALSE
    /\ middlePanning' = FALSE
    /\ visibleDomain' = Null
    /\ initialFitted' = FALSE
    /\ isDragging' = FALSE
    /\ UNCHANGED <<jobs, pendingUpdates, width, emitted, session, selected,
                   Board, error>>
    /\ Flush

(* the window loses focus while the chart is shown: the chart registers no *)
(* blur, pointercancel or lostpointercapture listener, so no handler runs  *)
WindowBlur ==
    /\ mounted
    /\ Step
    /\ UNCHANGED <<App, Session, width, panning, middlePanning, visibleDomain,
                   initialFitted, isDragging, rendered, History>>

(* click on the Reset button: zoom.reset() puts the transform matrix of    *)
(* the Zoom component back to its initial value; the matrix is not part of *)
(* the chart's own state and the visible domain is not touched             *)
ResetClick ==
    /\ mounted
    /\ Step
    /\ UNCHANGED <<App, Session, width, panning, middlePanning, visibleDomain,
                   initialFitted, isDragging, History>>
    /\ Flush

(* click on Zoom + or Zoom -: zoom.scale({scaleX, center}) rescales the    *)
(* transform matrix of the Zoom component; neither handleZoom nor          *)
(* setVisibleDomain is called                                              *)
buttonScale(plus) ==
    IF plus THEN [n |-> 12, d |-> 10] ELSE [n |-> 8, d |-> 10]

ZoomButtonClick(plus) ==
    /\ mounted
    /\ Step
    /\ UNCHANGED <<App, Session, width, panning, middlePanning, visibleDomain,
                   initialFitted, isDragging, History>>
    /\ Flush

----------------------------------------------------------------------------
(* The status board of App                                                 *)

statusOrder == {"queued", "in_progress", "on_hold", "done"}

(* where a card can be dropped: over a column, over something that is not  *)
(* a column, or over nothing (Null)                                        *)
DropTargets == {[id |-> i] : i \in statusOrder \cup {"trash"}} \cup {Null}

(* the fields of the Job that jobService.updateJob resolves with           *)
JobFields == {"id", "job_number", "customer_name", "address", "phone_number",
              "email", "material", "status", "due_date", "job_description",
              "sketch_data", "job_start", "job_end", "created_at",
              "updated_at"}

(* jobService.updateJob: resolves with the updated row, throws when the    *)
(* backend reports an error or returns no row                              *)
updateJob(ok) ==
    IF ok THEN [resolved |-> TRUE, fields |-> JobFields]
          ELSE [resolved |-> FALSE, fields |-> {}]

ChartState == <<jobs, pendingUpdates, mounted, Session, width, panning,
                middlePanning, visibleDomain, initialFitted, isDragging,
                rendered, History>>

(* App.handleDragEnd: a card is dropped; the updater of setJobs changes    *)
(* the status of the job and starts updateJob                              *)
BoardDragEnd(activeId, over) ==
    /\ Step
    /\ IF over = Null
       THEN UNCHANGED <<jobStatus, pendingStatus>>
       ELSE LET newStatus == over.id
            IN  IF newStatus \notin statusOrder \/ jobStatus[activeId] = newStatus
                THEN UNCHANGED <<jobStatus, pendingStatus>>
                ELSE /\ jobStatus' = [jobStatus EXCEPT ![activeId] = newStatus]
                     /\ pendingStatus' =
                            Append(pendingStatus,
                                   [jobId |-> activeId, status |-> newStatus,
                                    prevJobs |-> jobStatus])
    /\ UNCHANGED <<ChartState, error>>

(* the updateJob of a drop settles: the async function of handleDragEnd    *)
(* goes on after its await when updateJob resolved, and ends with the      *)
(* exception when updateJob threw                                          *)
StatusUpdateSettles(ok) ==
    /\ Step
    /\ pendingStatus # <<>>
    /\ LET u == Head(pendingStatus)
           result == updateJob(ok)
           failed == result.resolved /\ "error" \in result.fields
       IN  /\ error' = IF failed THEN [message |-> "Failed to move job"]
                                  ELSE error
           /\ jobStatus' = IF failed THEN u.prevJobs ELSE jobStatus
    /\ pendingStatus' = Tail(pendingStatus)
    /\ UNCHANGED ChartState

NextBoard ==
    \/ \E j \in JobIds, over \in DropTargets : BoardDragEnd(j, over)
    \/ \E ok \in BOOLEAN : StatusUpdateSettles(ok)

SpecBoard == InitBoard /\ [][NextBoard]_vars

----------------------------------------------------------------------------
Next ==
    \/ \E t \in JobIds, op \in Operations, b \in Buttons, x \in DownXs :
          MouseDownHandle(t, op, b, x)
    \/ \E b \in Buttons : MouseDownSurface(b)
    \/ \E x \in ClientXs : DragMouseMove(x)
    \/ \E m \in MovementXs : PanMouseMove(m)
    \/ \E neg \in BOOLEAN, x \in WheelXs : Wheel(neg, x)
    \/ \E b \in Buttons : DragMouseUp(b)
    \/ \E b \in Buttons, over \in BOOLEAN : SurfaceMouseUp(b, over)
    \/ MouseLeave
    \/ KeyDownSpace
    \/ KeyUpSpace
    \/ \E iw \in InnerWidths : Resize(iw)
    \/ Render
    \/ \E ok \in BOOLEAN : UpdateJobSettles(ok)
    \/ Unmount
    \/ WindowBlur
    \/ ResetClick
    \/ \E plus \in BOOLEAN : ZoomButtonClick(plus)

Spec == Init /\ [][Next]_vars

SpecDeep == InitDeep /\ [][Next]_vars

SpecInverted == InitInverted /\ [][Next]_vars

(* the chart with the clicks on the task bodies among its events           *)
NextSelect ==
    \/ Next
    \/ \E t \in JobIds : BodyClick(t)

SpecSelect == Init /\ [][NextSelect]_vars

(* the chart with the changes of the jobs prop among its events            *)
NextJobs ==
    \/ Next
    \/ \E js \in ChangedJobLists : JobsChange(js)

SpecJobs == Init /\ [][NextJobs]_vars

----------------------------------------------------------------------------
(* Properties                                                              *)

Width(d) == d.end - d.start

(* the instant under pixel px, as an exact fraction                        *)
InstantAt(d, xmax, px) ==
    RAdd(Rat(d.start), RDiv(RMul(Rat(Width(d)), Rat(px)), Rat(xmax)))

AnchorDrift(from, to, xmax, px) ==
    RSub(InstantAt(to, xmax, px), InstantAt(from, xmax, px))

Trunc(n, d) ==
    LET num == IF d > 0 THEN n ELSE 0 - n
        den == IF d > 0 THEN d ELSE 0 - d
    IN  IF num >= 0 THEN num \div den ELSE 0 - ((0 - num) \div den)

Min(a, b) == IF a <= b THEN a ELSE b

EmissionsOf(s) == Cardinality({i \in DOMAIN emitted : emitted[i].session = s})

(* C1 as stated: after handleZoom(scaleFactor, anchorPx) the instant that  *)
(* was under anchorPx is exactly the instant under anchorPx in the new     *)
(* domain.                                                                 *)
ZoomAnchorExact ==
    [][\A neg \in BOOLEAN, x \in WheelXs :
          Wheel(neg, x) =>
              AnchorDrift(rendered.visibleDomain, visibleDomain',
                          xMax(rendered.width), x - MarginLeft).n = 0]_vars

(* C1 amended: for an anchor inside the plot area the instant under        *)
(* anchorPx moves by less than one stored unit (1 ms), the truncation of   *)
(* the two new bounds to whole milliseconds.                               *)
ZoomAnchorWithinOneMs ==
    [][\A neg \in BOOLEAN, x \in WheelXs :
          (/\ x - MarginLeft >= 0
           /\ x - MarginLeft <= xMax(rendered.width)
           /\ Wheel(neg, x)) =>
              LET drift == AnchorDrift(rendered.visibleDomain, visibleDomain',
                                       xMax(rendered.width), x - MarginLeft)
              IN  drift.n < drift.d /\ 0 - drift.n < drift.d]_vars

ZoomedAtPointer ==
    \E neg \in BOOLEAN, x \in WheelXs :
        /\ mounted
        /\ rendered.visibleDomain # Null
        /\ x - MarginLeft >= 0
        /\ x - MarginLeft <= xMax(rendered.width)
        /\ visibleDomain # rendered.visibleDomain
        /\ visibleDomain = handleZoom(rendered.visibleDomain, xMax(rendered.width),
                                      wheelScale(neg), x - MarginLeft)

(* C2 as stated: handlePan(d) leaves domainEnd - domainStart of the        *)
(* visible domain it shifts unchanged, for every pixel delta d and every   *)
(* visible domain.                                                         *)
PanPreservesWidth ==
    [][\A m \in MovementXs :
          PanMouseMove(m) => Width(visibleDomain') = Width(rendered.visibleDomain)]_vars

(* C2 amended: handlePan(d) leaves the width unchanged whenever the two    *)
(* shifted bounds lie on the same side of the epoch; when the shifted      *)
(* domain contains the epoch the width shrinks by at most one stored unit  *)
(* (1 ms), each bound being truncated toward zero.                         *)
PanPreservesWidthOffEpoch ==
    [][\A m \in MovementXs :
          PanMouseMove(m) =>
              LET d == rendered.visibleDomain
                  xm == xMax(rendered.width)
                  sign == IF xm > 0 THEN 1 ELSE 0 - 1
                  shiftedStart == sign * (d.start * xm - m * Width(d))
                  shiftedEnd == sign * (d.end * xm - m * Width(d))
              IN  /\ (shiftedStart >= 0 \/ shiftedEnd <= 0) =>
                        Width(visibleDomain') = Width(d)
                  /\ Width(d) - Width(visibleDomain') \in {0, 1}]_vars

PannedByFractionAfterEpoch ==
    \E m \in MovementXs :
        /\ mounted
        /\ rendered.isDragging
        /\ rendered.visibleDomain # Null
        /\ rendered.visibleDomain.start > 0
        /\ Width(rendered.visibleDomain) % xMax(rendered.width) # 0
        /\ visibleDomain # rendered.visibleDomain
        /\ visibleDomain = handlePan(rendered.visibleDomain, xMax(rendered.width), m)

(* C3: a drag session that ended with a pointer-up has invoked             *)
(* onJobTimeUpdate exactly once; a session in progress, or cut short by    *)
(* the unmount of the chart, has invoked it zero times; none more than     *)
(* once.                                                                   *)
SingleEmission ==
    \A s \in 1..session :
        EmissionsOf(s) = IF s = session /\ (dragOperation # "null" \/ cancelled = s)
                         THEN 0 ELSE 1

GestureCompleted ==
    /\ mounted
    /\ session >= 1
    /\ dragOperation = "null"
    /\ EmissionsOf(session) = 1

(* C4: onJobTimeUpdate is invoked only by the pointer-up that takes the    *)
(* controller from Dragging to Idle, never by a pointer-down or a          *)
(* pointer-move.                                                           *)
EmissionOnlyAtPointerUp ==
    [][emitted' # emitted =>
          /\ dragOperation # "null"
          /\ dragOperation' = "null"
          /\ \E b \in Buttons : DragMouseUp(b)]_vars

DraggedWithoutEmission ==
    /\ mounted
    /\ dragOperation # "null"
    /\ draggedTask # Null
    /\ draggedTask.start # dragStartPosition.startDate
    /\ EmissionsOf(session) = 0

GestureMutualExclusion ==
    ~(isDragging /\ dragOperation # "null")

(* C7: while a drag session exists no wheel-zoom or pan changes the        *)
(* visible domain.                                                         *)
ViewportFrozenWhileDragging ==
    [][(dragOperation # "null" /\ dragOperation' # "null") =>
          visibleDomain' = visibleDomain]_vars

(* C8: a pointer-down on a task handle while a drag session is active      *)
(* leaves the session's task snapshot, operation and anchor unchanged.     *)
ReentrantStartIgnored ==
    [][(/\ dragOperation # "null"
        /\ \E t \in JobIds, op \in Operations, b \in Buttons, x \in DownXs :
              MouseDownHandle(t, op, b, x)) =>
          /\ draggedTask' = draggedTask
          /\ dragOperation' = dragOperation
          /\ dragStartPosition' = dragStartPosition]_vars

(* C9 as stated: in a move session the candidate after a pointer-move to   *)
(* x is (anchorStart + d, anchorEnd + d), d = (x - anchorPixelX) *         *)
(* msPerPixel, each stored as a whole millisecond, and the duration is the *)
(* anchor's.                                                               *)
MoveCandidate ==
    [][\A x \in ClientXs :
          (DragMouseMove(x) /\ rendered.dragOperation = "move") =>
              LET pos == rendered.dragStartPosition
                  w == Width(rendered.visibleDomain)
                  xm == xMax(rendered.width)
              IN  /\ draggedTask'.start =
                        Trunc(pos.startDate * xm + (x - pos.x) * w, xm)
                  /\ draggedTask'.end =
                        Trunc(pos.endDate * xm + (x - pos.x) * w, xm)
                  /\ draggedTask'.end - draggedTask'.start =
                        pos.endDate - pos.startDate]_vars

(* C9 amended: the candidate is (anchorStart + d, anchorEnd + d), each     *)
(* truncated toward zero to a whole millisecond; the duration is the       *)
(* anchor's whenever the two shifted bounds lie on the same side of the    *)
(* epoch, and at most 1 ms shorter when the shifted task contains the      *)
(* epoch.                                                                  *)
MoveCandidateOffEpoch ==
    [][\A x \in ClientXs :
          (rendered.dragOperation = "move" /\ DragMouseMove(x)) =>
              LET pos == rendered.dragStartPosition
                  w == Width(rendered.visibleDomain)
                  xm == xMax(rendered.width)
                  sign == IF xm > 0 THEN 1 ELSE 0 - 1
                  shiftedStart == pos.startDate * xm + (x - pos.x) * w
                  shiftedEnd == pos.endDate * xm + (x - pos.x) * w
                  duration == draggedTask'.end - draggedTask'.start
              IN  /\ draggedTask'.start = Trunc(shiftedStart, xm)
                  /\ draggedTask'.end = Trunc(shiftedEnd, xm)
                  /\ (sign * shiftedStart >= 0 \/ sign * shiftedEnd <= 0) =>
                        duration = pos.endDate - pos.startDate
                  /\ (pos.endDate - pos.startDate) - duration \in {0, 1}]_vars

MoveByTwoHoursCommitted ==
    \E i \in DOMAIN emitted :
        /\ emitted[i].jobId = "a"
        /\ emitted[i].operation = "move"
        /\ emitted[i].start = Day0 + 11 * MsPerHour
        /\ emitted[i].end = Day0 + 13 * MsPerHour

(* C10: in a resize-start session every candidate has the anchor's end and *)
(* start = min(anchorStart + deltaTime, anchorEnd), and what the session   *)
(* commits is never an inverted range.                                     *)
ResizeStartCandidate ==
    /\ [](\A i \in DOMAIN emitted :
             emitted[i].operation = "resize-start" =>
                 emitted[i].start <= emitted[i].end)
    /\ [][\A x \in ClientXs :
             (rendered.dragOperation = "resize-start" /\ DragMouseMove(x)) =>
                 LET pos == rendered.dragStartPosition
                     w == Width(rendered.visibleDomain)
                     xm == xMax(rendered.width)
                 IN  /\ draggedTask'.end = pos.endDate
                     /\ draggedTask'.start =
                           Min(Trunc(pos.startDate * xm + (x - pos.x) * w, xm),
                               pos.endDate)]_vars

ResizeStartPastEndCommitted ==
    \E i \in DOMAIN emitted :
        /\ emitted[i].jobId = "a"
        /\ emitted[i].operation = "resize-start"
        /\ emitted[i].start = Day0 + 11 * MsPerHour
        /\ emitted[i].end = Day0 + 11 * MsPerHour

Max(a, b) == IF a >= b THEN a ELSE b

(* C11: in a resize-end session every candidate has the anchor's start and *)
(* end = max(anchorEnd + deltaTime, anchorStart), deltaTime = (x -         *)
(* anchorPixelX) * msPerPixel, stored as a whole millisecond.              *)
ResizeEndCandidate ==
    [][\A x \in ClientXs :
          (rendered.dragOperation = "resize-end" /\ DragMouseMove(x)) =>
              LET pos == rendered.dragStartPosition
                  w == Width(rendered.visibleDomain)
                  xm == xMax(rendered.width)
              IN  /\ draggedTask'.start = pos.startDate
                  /\ draggedTask'.end =
                        Max(Trunc(pos.endDate * xm + (x - pos.x) * w, xm),
                            pos.startDate)]_vars

ResizeEndCandidateClamped ==
    /\ mounted
    /\ dragOperation = "resize-end"
    /\ draggedTask # Null
    /\ draggedTask.start = dragStartPosition.startDate
    /\ draggedTask.end = dragStartPosition.startDate
    /\ dragStartPosition.endDate > dragStartPosition.startDate

(* C12: the pointer-up commits the job's id and the (start, end) of the    *)
(* last candidate (the snapshot when there was no move), also when it is   *)
(* handled before the render that follows the last pointer-move.           *)
CommitIsFinalCandidate ==
    [][\A b \in Buttons :
          (DragMouseUp(b) /\ draggedTask # Null) =>
              /\ Len(emitted') = Len(emitted) + 1
              /\ emitted'[Len(emitted')].jobId = draggedTask.job_id
              /\ emitted'[Len(emitted')].start = draggedTask.start
              /\ emitted'[Len(emitted')].end = draggedTask.end]_vars

(* C13: a drag interrupted by focus loss is discarded: the session returns *)
(* to Idle, nothing is emitted and the task is drawn from its committed    *)
(* start and end again.                                                    *)
FocusLossCancels ==
    [][(WindowBlur /\ dragOperation # "null") =>
          /\ dragOperation' = "null"
          /\ draggedTask' = Null
          /\ emitted' = emitted]_vars

(* C14: the global drag listeners are registered exactly while a drag      *)
(* session is active on a mounted chart; without them a pointer-move       *)
(* changes no candidate; pointer-up and unmount remove them, and nothing   *)
(* is emitted while they are not registered.                               *)
ListenerLifecycle ==
    /\ [](dragListeners(rendered) <=> (mounted /\ dragOperation # "null"))
    /\ [][/\ (dragOperation = "null" /\ dragOperation' = "null") =>
                (draggedTask' = Null /\ emitted' = emitted)
          /\ (\E b \in Buttons : DragMouseUp(b)) => ~dragListeners(rendered')
          /\ Unmount => ~dragListeners(rendered')
          /\ ~dragListeners(rendered) => emitted' = emitted]_vars

UnmountedMidDrag ==
    /\ ~mounted
    /\ cancelled # 0
    /\ cancelled = session
    /\ ~dragListeners(rendered)
    /\ EmissionsOf(cancelled) = 0

(* C15: the visible domain always lies within the window from 50 years     *)
(* before now to 50 years after now.                                       *)
DomainWithinHugeDomain ==
    visibleDomain # Null =>
        /\ hugeDomain.start <= visibleDomain.start
        /\ visibleDomain.end <= hugeDomain.end

(* C16: the zoom of the visible domain relative to the fitted view         *)
(* (fitted width / visible width) stays between scaleXMin and scaleXMax.   *)
ZoomWithinLimits ==
    visibleDomain # Null =>
        LET w == Width(visibleDomain)
            f == Width(DeepFit.domain)
        IN  /\ scaleXMin.n * w <= scaleXMin.d * f
            /\ scaleXMax.d * f <= scaleXMax.n * w

(* C17: once set, the visible domain has domainStart < domainEnd.          *)
NonDegenerateDomain ==
    visibleDomain # Null => visibleDomain.start < visibleDomain.end

(* C18: the pixel width xMax = width - margin.left - margin.right used for *)
(* the time-to-pixel conversion is strictly positive in every reachable    *)
(* state.                                                                  *)
PositivePixelWidth ==
    mounted => (xMax(width) > 0 /\ xMax(rendered.width) > 0)

(* C19: when the tasks first become available the visible domain is set to *)
(* [earliest task start - 3 days, latest task end + 3 days]; three tasks   *)
(* spanning 2024-03-01 to 2024-03-10 give 2024-02-27 to 2024-03-13.        *)
FitToTasks ==
    /\ steps = 0 =>
          LET tasks == ganttTasks(jobs)
              threeDays == 3 * 24 * MsPerHour
          IN  \E first, last \in DOMAIN tasks :
                  /\ \A t \in DOMAIN tasks :
                        /\ tasks[first].start <= tasks[t].start
                        /\ tasks[last].end >= tasks[t].end
                  /\ visibleDomain = [start |-> tasks[first].start - threeDays,
                                      end |-> tasks[last].end + threeDays]
    /\ initialFit(Null, FALSE, ganttTasks(MarchJobs)).domain =
          [start |-> DateOf(2024, 2, 27), end |-> DateOf(2024, 3, 13)]

FittedOnMount ==
    /\ steps = 0
    /\ mounted
    /\ initialFitted
    /\ DOMAIN ganttTasks(jobs) = {"a", "b"}
    /\ visibleDomain = rendered.visibleDomain
    /\ Width(visibleDomain) = (17 - 9) * MsPerHour + 2 * PadMs

(* C20: pressing Reset sets the visible domain to the task set's           *)
(* [min start, max end] padded by 3 days on each side.                     *)
ResetFitsTasks ==
    [][ResetClick =>
          visibleDomain' = initialFit(Null, FALSE, ganttTasks(jobs)).domain]_vars

(* C21: Zoom + (factor 1.2) and Zoom - (factor 0.8) rescale the width of   *)
(* the visible domain by 1/factor (to the stored unit).                    *)
ZoomButtonsRescale ==
    [][\A plus \in BOOLEAN :
          (visibleDomain # Null /\ ZoomButtonClick(plus)) =>
              LET f == buttonScale(plus)
                  w == Width(visibleDomain)
                  nw == Width(visibleDomain')
              IN  /\ nw * f.n >= w * f.d - f.n
                  /\ nw * f.n <= w * f.d + f.n]_vars

(* C22: a pointer-move of a move session yields anchor + deltaPx * (domain *)
(* width / pixel width) for the visible domain and the width current at    *)
(* that move.                                                              *)
MidDragCurrentScale ==
    [][\A x \in ClientXs :
          (rendered.dragOperation = "move" /\ DragMouseMove(x)) =>
              LET pos == rendered.dragStartPosition
                  w == Width(visibleDomain)
                  xm == xMax(width)
              IN  /\ draggedTask'.start =
                        Trunc(pos.startDate * xm + (x - pos.x) * w, xm)
                  /\ draggedTask'.end =
                        Trunc(pos.endDate * xm + (x - pos.x) * w, xm)]_vars

(* C23: a window resize changes the pixel width only: the visible domain   *)
(* and the fitted flag are what they were, also after the render that      *)
(* follows.                                                                *)
ResizeKeepsDomain ==
    [][/\ \A iw \in InnerWidths :
             Resize(iw) =>
                 /\ width' = iw - WindowPadding
                 /\ visibleDomain' = visibleDomain
                 /\ initialFitted' = initialFitted
       /\ (rendered.width # width /\ Render) =>
             (visibleDomain' = visibleDomain /\ width' = width)]_vars

ResizedAfterZoom ==
    /\ mounted
    /\ width = NarrowInnerWidth - WindowPadding
    /\ rendered.width = width
    /\ visibleDomain # Null
    /\ visibleDomain # initialFit(Null, FALSE, ganttTasks(jobs)).domain

(* job lists with every combination of present and missing bounds          *)
ProjectionInputs ==
    [JobIds -> {Job(st, en) : st \in {<<>>, <<Day0>>},
                              en \in {<<>>, <<Day0 + MsPerHour>>}}]

Projects(js) ==
    LET tasks == ganttTasks(js)
    IN  /\ DOMAIN tasks =
              {j \in DOMAIN js : js[j].job_start # <<>> /\ js[j].job_end # <<>>}
        /\ \A t \in DOMAIN tasks :
              /\ tasks[t].job_id = t
              /\ <<tasks[t].start>> = js[t].job_start
              /\ <<tasks[t].end>> = js[t].job_end

(* C24: the task list is exactly the jobs with both job_start and job_end  *)
(* present, one task per such job carrying the job's id; a job missing     *)
(* either bound yields no task.                                            *)
TaskProjection ==
    /\ Projects(jobs)
    /\ steps = 0 => \A js \in ProjectionInputs : Projects(js)

JobWithoutEndNotATask ==
    /\ mounted
    /\ steps > 0
    /\ jobs["c"].job_start # <<>>
    /\ jobs["c"].job_end = <<>>
    /\ DOMAIN ganttTasks(jobs) = {"a", "b"}
    /\ pendingUpdates = <<>>
    /\ emitted # <<>>

(* C25: a job whose job_start or job_end is present but unparsable is not  *)
(* in the task set and takes no part in the min/max of the fit.            *)
UnparsableJobsExcluded ==
    mounted =>
        LET parsable == {j \in DOMAIN jobs :
                            /\ jobs[j].job_start \notin {<<>>, <<NaN>>}
                            /\ jobs[j].job_end \notin {<<>>, <<NaN>>}}
        IN  /\ DOMAIN ganttTasks(jobs) = parsable
            /\ parsable # {} =>
                  /\ visibleDomain # Null
                  /\ \E first, last \in parsable :
                        /\ \A j \in parsable :
                              /\ jobs[first].job_start[1] <= jobs[j].job_start[1]
                              /\ jobs[last].job_end[1] >= jobs[j].job_end[1]
                        /\ visibleDomain =
                              [start |-> jobs[first].job_start[1] - PadMs,
                               end |-> jobs[last].job_end[1] + PadMs]

(* C26: a task or drag candidate with start >= end has no bar and no       *)
(* handles, and no drag session is started on a task with start >= end.    *)
HiddenDegenerateBars ==
    /\ \A t \in DOMAIN ganttTasks(jobs) :
          LET task == ganttTasks(jobs)[t]
              renderTask == IF rendered.draggedTask # Null
                               /\ rendered.draggedTask.id = task.id
                            THEN rendered.draggedTask ELSE task
          IN  (mounted /\ barDrawn(rendered, task)) =>
                  renderTask.start < renderTask.end
    /\ dragOperation # "null" =>
          dragStartPosition.startDate < dragStartPosition.endDate

TickPolicy(vd) ==
    LET w == vd.end - vd.start
        axis == primaryAxis(vd)
    IN  /\ w < 2 * MsPerHour =>
              (axis.tickValues = "timeMinute.every(5)" /\ axis.tickFormat = "HH:mm")
        /\ (2 * MsPerHour <= w /\ w < 24 * MsPerHour) =>
              (axis.tickValues = "timeHour.every(1)" /\ axis.tickFormat = "H:00")
        /\ w >= 24 * MsPerHour => axis.tickValues = "default"

TickWidths == 0 .. 30 * MsPerHour

(* C27: the primary axis has 5-minute ticks labelled HH:MM for a domain    *)
(* narrower than 2 hours, 1-hour ticks labelled H:00 from 2 hours to under *)
(* 24 hours, and the default ticks from 24 hours on.                       *)
PrimaryAxisPolicy ==
    /\ mounted => TickPolicy(scaleDomain(rendered))
    /\ steps = 0 =>
          \A w \in TickWidths : TickPolicy([start |-> Day0, end |-> Day0 + w])

FiveMinuteTicksOnCollapsedDomain ==
    /\ mounted
    /\ rendered.visibleDomain # Null
    /\ Width(rendered.visibleDomain) = 0
    /\ primaryAxis(scaleDomain(rendered)).tickValues = "timeMinute.every(5)"

OneHour == [start |-> Day0, end |-> Day0 + MsPerHour]

ThreeDays == [start |-> Day0, end |-> Day0 + 3 * HoursPerDay * MsPerHour]

(* C28 as stated: a 1-hour domain selects 5-minute ticks and a 3-day       *)
(* domain hourly ticks on the primary axis; the day and month axes keep    *)
(* their policy.                                                           *)
TickSwitchToHourly ==
    mounted =>
        /\ primaryAxis(OneHour).tickValues = "timeMinute.every(5)"
        /\ primaryAxis(ThreeDays).tickValues = "timeHour.every(1)"
        /\ dayAxis(OneHour) = dayAxis(ThreeDays)
        /\ monthAxis(OneHour) = monthAxis(ThreeDays)

(* C28 amended: a 1-hour domain selects 5-minute ticks and a 3-day domain  *)
(* the default tick spacing (labelled H:00) on the primary axis; the day   *)
(* and month axes have the same policy for both and in every state.        *)
TickSwitchToDefault ==
    mounted =>
        /\ primaryAxis(OneHour).tickValues = "timeMinute.every(5)"
        /\ primaryAxis(ThreeDays) = [tickValues |-> "default", tickFormat |-> "H:00"]
        /\ dayAxis(OneHour) = dayAxis(ThreeDays)
        /\ monthAxis(OneHour) = monthAxis(ThreeDays)
        /\ dayAxis(scaleDomain(rendered)) = dayAxis(ThreeDays)
        /\ monthAxis(scaleDomain(rendered)) = monthAxis(ThreeDays)

OneHourDomainRendered ==
    /\ mounted
    /\ rendered.visibleDomain # Null
    /\ Width(rendered.visibleDomain) = MsPerHour
    /\ primaryAxis(scaleDomain(rendered)).tickValues = "timeMinute.every(5)"
    /\ dayAxis(scaleDomain(rendered)).tickValues = "default"

(* C29: handlePan(d) with d > 0 moves both domain bounds earlier by        *)
(* d * domainWidth / pixelWidth (to the millisecond the Date keeps), and   *)
(* d < 0 moves them later by the same amount.                              *)
PanDirection ==
    [][\A m \in MovementXs :
          PanMouseMove(m) =>
              LET d == rendered.visibleDomain
                  xm == xMax(rendered.width)
                  shift == Trunc(Max(m, 0 - m) * Width(d), xm)
              IN  IF m > 0
                  THEN /\ d.start - visibleDomain'.start \in {shift, shift + 1}
                       /\ d.end - visibleDomain'.end \in {shift, shift + 1}
                  ELSE /\ visibleDomain'.start - d.start \in {shift, shift + 1}
                       /\ visibleDomain'.end - d.end \in {shift, shift + 1}]_vars

(* C30: a pointer-down on the chart surface with the space key held or     *)
(* with the middle button starts a pan; a pointer-down with the right      *)
(* button, or with the primary button while space is not held, starts none.*)
PanDesignation ==
    [][\A b \in Buttons :
          MouseDownSurface(b) =>
              /\ (b = 1 \/ (b = 0 /\ panning)) => isDragging'
              /\ (b = 2 \/ (b = 0 /\ ~panning)) => isDragging' = isDragging]_vars

(* C31: a click on a task's body calls onJobClick once with the job the    *)
(* task was derived from, starts no drag session and calls no              *)
(* onJobTimeUpdate; no other event, the presses, moves and releases of a   *)
(* drag on the handles included, calls onJobClick.                         *)
SelectionCallback ==
    [][/\ \A t \in JobIds :
             BodyClick(t) =>
                 /\ selected' = Append(selected, [jobId |-> t, job |-> jobs[t]])
                 /\ ganttTasks(jobs)[t].job_id = t
                 /\ UNCHANGED <<draggedTask, dragOperation, dragStartPosition,
                                session, emitted, pendingUpdates>>
       /\ selected' # selected => \E t \in JobIds : BodyClick(t)]_vars

ClickedAfterDrag ==
    /\ Len(selected) = 1
    /\ Len(emitted) = 1
    /\ session = 1
    /\ dragOperation = "null"

(* C32: the colour of a task depends on the job id alone: the same id has  *)
(* the same hue in every render pass, whatever other jobs are in the list. *)
ColorDeterminism ==
    \A t \in DOMAIN taskColors(jobs) :
        /\ taskColors(jobs)[t].hue = hue(charCodes[t])
        /\ \A js \in MountInputs :
              t \in DOMAIN taskColors(js) => taskColors(js)[t] = taskColors(jobs)[t]

SecondTaskAloneColoured ==
    /\ mounted
    /\ DOMAIN taskColors(jobs) = {"b"}
    /\ taskColors(jobs)["b"].hue = 61

(* the ids of up to MaxIdLen characters over NUL, '-', 'a' and U+FFFF      *)
HueCodes == {0, 45, 97, 65535}

HueIds == UNION {[1..n -> HueCodes] : n \in 0..MaxIdLen}

(* C39: for every id the hue |hash % 300| is in 0..299, also when the hash *)
(* has passed 32 bits and when it is negative.                             *)
HueRange ==
    /\ \A t \in DOMAIN taskColors(jobs) : taskColors(jobs)[t].hue \in 0..299
    /\ steps = 0 => \A id \in HueIds : hue(id) \in 0..299

HuesOfWrappedAndNegativeHashes ==
    /\ mounted
    /\ DOMAIN taskColors(jobs) = {"a", "b"}
    /\ hashOf(charCodes["a"]).q >= Limb
    /\ hashOf(charCodes["b"]).q < 0
    /\ taskColors(jobs)["a"].hue = 106

REq(a, b) == a.n * b.d = b.n * a.d

InstantsInside(d) ==
    {t \in {d.start, d.start + 1, (d.start + d.end) \div 2, d.end - 1, d.end}
            \cup {ganttTasks(jobs)[j].start : j \in DOMAIN ganttTasks(jobs)}
            \cup {ganttTasks(jobs)[j].end : j \in DOMAIN ganttTasks(jobs)} :
        d.start <= t /\ t <= d.end}

PanEndsAtPointerUp ==
    [][((\E b \in Buttons : SurfaceMouseUp(b, TRUE)) \/ MouseLeave)
          => ~isDragging']_vars

(* C35: a pan or a wheel zoom handled before the render of an earlier one  *)
(* is applied to the domain that the earlier one produced.                 *)
NoLostViewportUpdates ==
    [][/\ \A m \in MovementXs :
             (visibleDomain # rendered.visibleDomain /\ PanMouseMove(m)) =>
                 visibleDomain' = handlePan(visibleDomain, xMax(rendered.width), m)
       /\ \A neg \in BOOLEAN, x \in WheelXs :
             (visibleDomain # rendered.visibleDomain /\ Wheel(neg, x)) =>
                 visibleDomain' = handleZoom(visibleDomain, xMax(rendered.width),
                                             wheelScale(neg), x - MarginLeft)]_vars

(* C36: once the visible domain of a chart instance is set, only pan and   *)
(* wheel zoom change it: no change of the job list (a settled reschedule,  *)
(* a filter change) and no drag event does.                                *)
FitOnce ==
    [][(visibleDomain # Null /\ visibleDomain' # visibleDomain) =>
          \/ \E m \in MovementXs : PanMouseMove(m)
          \/ \E neg \in BOOLEAN, x \in WheelXs : Wheel(neg, x)
          \/ Unmount]_vars

JobsChangedAfterFit ==
    /\ mounted
    /\ jobs \in ChangedJobLists
    /\ emitted # <<>>
    /\ visibleDomain # Null
    /\ visibleDomain # initialFit(Null, FALSE, ganttTasks(jobs)).domain

DragStateConsistent ==
    /\ [](mounted =>
            /\ (draggedTask = Null) <=> (dragOperation = "null")
            /\ dragOperation # "null" =>
                  /\ dragStartPosition # Null
                  /\ dragStartPosition.x \in DownXs)
    /\ [][dragOperation' # "null" =>
             \/ /\ dragOperation' = dragOperation
                /\ dragStartPosition' = dragStartPosition
                /\ draggedTask # Null
                /\ draggedTask'.id = draggedTask.id
             \/ \E t \in JobIds, op \in Operations, b \in Buttons, x \in DownXs :
                   /\ MouseDownHandle(t, op, b, x)
                   /\ dragOperation' = op
                   /\ draggedTask'.id = ganttTasks(jobs)[t].id
                   /\ dragStartPosition' =
                         [x |-> x, startDate |-> ganttTasks(jobs)[t].start,
                          endDate |-> ganttTasks(jobs)[t].end]]_vars

SecondSessionAnchored ==
    /\ mounted
    /\ session = 2
    /\ dragOperation # "null"
    /\ draggedTask.id = "b"
    /\ emitted # <<>>
    /\ emitted[1].jobId = "a"
    /\ dragStartPosition.startDate = ganttTasks(jobs)["b"].start

(* C40: a card dropped on another status column changes the job's status   *)
(* at once; when the backend update then fails, the job list is put back   *)
(* to what it was before the drop and an error message is set.             *)
OptimisticStatusUpdate ==
    [][/\ \A j \in JobIds, st \in statusOrder :
             (jobStatus[j] # st /\ BoardDragEnd(j, [id |-> st])) =>
                 jobStatus' = [jobStatus EXCEPT ![j] = st]
       /\ (pendingStatus # <<>> /\ StatusUpdateSettles(FALSE)) =>
             /\ jobStatus' = Head(pendingStatus).prevJobs
             /\ error' # Null]_vars

====
